---- MODULE Spec2Model ----
(***************************************************************************)
(* Model of repo-autodeployer: the JobManager (src/app/queue.py), the      *)
(* request handler (src/app/main.py) and the deployment pipeline           *)
(* process_deploy_request (src/app/worker.py) with the templates and the   *)
(* oracle client it uses.                                                  *)
(*                                                                         *)
(* Two specifications share the JobManager actions:                        *)
(*   Spec     - several jobs; fn, the callable handed to submit(), is any  *)
(*              callable: it logs, then returns or raises.                 *)
(*   PipeSpec - one job whose fn is process_deploy_request, stage by stage.*)
(***************************************************************************)
EXTENDS Integers, Sequences, FiniteSets, TLC

\* ---------------------------------------------------------------- bounds
NumJobs == 3        \* job ids drawn by request_deploy
MaxFnLogs == 1      \* log lines an arbitrary fn emits (Spec)
MaxFiles == 2       \* files of a generated repository snapshot (PortSpec)
MaxToolLines == 2   \* output lines one terraform command emits (PipeSpec)

\* ------------------------------------------------------ program constants
MaxWorkers == 2     \* JobManager(max_workers=2), MAX_CONCURRENT_JOBS default

JobIds == 1..NumJobs

queued == "queued"
running == "running"
completed == "completed"
failed == "failed"

VARIABLES
  jobs,       \* JobManager._jobs: job id -> record (status, logs, result, error)
  workq,      \* ThreadPoolExecutor work queue: ids whose _wrapper waits for a worker
  executing,  \* ids whose _wrapper a worker thread is running
  handler,    \* id request_deploy holds between create_job and submit, else 0
  pc,         \* per id: position of fn / _wrapper
  cause,      \* per id: the exception fn raised ("" for none)
  obs,        \* last answer of GET /job/{id}
  dry,        \* DRY_TERRAFORM_DEPLOYS
  loc,        \* per id: locals of process_deploy_request
  fs,         \* per id: the job's working directory
  orc,        \* per id: artifact kind -> what the oracle answered
  hist,       \* per id: stages and external calls executed, in order
  lock,       \* JobManager._lock: "free", or the call that holds it across steps
  listing,    \* list_jobs in progress: the entries built so far
  resp        \* per id: the status in request_deploy's response ("none" before it)

vars == <<jobs, workq, executing, handler, pc, cause, obs, dry, loc, fs, orc, hist,
          lock, listing, resp>>
pipeVars == <<dry, loc, fs, orc, hist>>
lockVars == <<lock, listing>>

\* ------------------------------------------------------------------ texts
\* A text is a sequence of tokens; a token is a fragment of a line as written (s)
\* with the decimal number that follows it (n, -1 when there is none).
Tok(s) == [s |-> s, n |-> -1]
Num(s, n) == [s |-> s, n |-> n]
File(name, text) == [name |-> name, text |-> text]

\* str.lower() on the fragments that hold upper-case letters.
LowerStr(s) ==
  CASE s = "FROM " -> "from "
    [] s = "EXPOSE " -> "expose "
    [] s = "EXPOSE ${PORT}" -> "expose ${port}"
    [] s = "CMD" -> "cmd"
    [] s = "ENTRYPOINT" -> "entrypoint"
    [] s = "AWS_KEY_PAIR" -> "aws_key_pair"
    [] s = "EGRESS" -> "egress"
    [] s = "T2.SMALL" -> "t2.small"
    [] s = "MAKE UP" -> "make up"
    [] s = "/HOME/UBUNTU/APP.TAR.GZ" -> "/home/ubuntu/app.tar.gz"
    [] s = "destination = /HOME/UBUNTU/APP.TAR.GZ" ->
         "destination = /home/ubuntu/app.tar.gz"
    [] s = "tar -xzf /HOME/UBUNTU/APP.TAR.GZ -C /opt/app" ->
         "tar -xzf /home/ubuntu/app.tar.gz -C /opt/app"
    [] s = "Dockerfile" -> "dockerfile"
    [] s = "README.md" -> "readme.md"
    [] s = "Makefile" -> "makefile"
    [] s = "from Flask import " -> "from flask import "
    [] s = "http.ListenAndServe(" -> "http.listenandserve("
    [] s = "@RestController" -> "@restcontroller"
    [] s = "SpringApplication.run(" -> "springapplication.run("
    [] s = "${PORT}" -> "${port}"
    [] s = "8080:${PORT}" -> "8080:${port}"
    [] s = "$$PORT" -> "$$port"
    [] s = "8080:$$PORT" -> "8080:$$port"
    [] OTHER -> s

Lower(t) == [t EXCEPT !.s = LowerStr(@)]
LowerText(x) == [i \in DOMAIN x |-> Lower(x[i])]

\* The searched-for strings that occur inside fragment s (s itself included).
Parts(s) ==
  {s} \cup
  CASE s = "cd /opt/app && sudo -n -E make up" -> {"make up", "cd /opt/app"}
    [] s = "cd /opt/app && sudo -n make up" -> {"make up", "cd /opt/app"}
    [] s = "cd /opt/app/app && sudo -n make up" ->
         {"make up", "cd /opt/app", "cd /opt/app/app"}
    [] s = "tar -xzf /home/ubuntu/app.tar.gz -C /opt" -> {"/home/ubuntu/app.tar.gz"}
    [] s = "tar -xzf /home/ubuntu/app.tar.gz -C /opt/app" -> {"/home/ubuntu/app.tar.gz"}
    [] s = "tar xzf /home/ubuntu/app.tar.gz -C /opt/app" -> {"/home/ubuntu/app.tar.gz"}
    [] s = "destination = /home/ubuntu/app.tar.gz" -> {"/home/ubuntu/app.tar.gz"}
    [] s = "resource tls_private_key ssh" -> {"tls_private_key"}
    [] s = "resource aws_key_pair deployer" -> {"aws_key_pair"}
    [] s = "egress {" -> {"egress"}
    [] s = "instance_type = t2.small" -> {"t2.small"}
    [] s = "user_data = <<-EOT" -> {"user_data"}
    [] s = "from flask import " -> {"flask", "from "}
    [] s = "from Flask import " -> {"from "}
    [] s = "from fastapi import " -> {"fastapi", "from "}
    [] s = "django.core" -> {"django", "go"}
    [] s = "require('express')" -> {"express"}
    [] s = "from 'express'" -> {"express", "from "}
    [] s = "app.listen(" -> {"listen("}
    [] s = "run(port=" -> {"port="}
    [] s = "app.run(host='127.0.0.1', port=" -> {"app.run(", "run(port=", "port="}
    [] s = "springapplication.run(" -> {"spring"}
    [] s = "gunicorn app:app -b 0.0.0.0:" -> {"0.0.0.0"}
    [] s = "8080:${PORT}" -> {"${PORT}"}
    [] s = "8080:${port}" -> {"${port}"}
    [] s = "8080:$$PORT" -> {"$$PORT"}
    [] s = "#!/usr/bin/env bash" -> {"#!/"}
    [] s = "#!/bin/sh" -> {"#!/"}
    [] OTHER -> {}

\* needle in text (Python's substring test).
In(needle, text) == \E i \in DOMAIN text : needle \in Parts(text[i].s)

MinOf(S) == CHOOSE x \in S : \A y \in S : x <= y

\* str.strip(): leading and trailing whitespace goes.
IsBlank(t) == t.s = " "
RECURSIVE StripLeft(_)
StripLeft(x) ==
  IF x = <<>> THEN <<>>
  ELSE IF IsBlank(Head(x)) THEN StripLeft(Tail(x)) ELSE x
RECURSIVE StripRight(_)
StripRight(x) ==
  IF x = <<>> THEN <<>>
  ELSE IF IsBlank(x[Len(x)]) THEN StripRight(SubSeq(x, 1, Len(x) - 1)) ELSE x
Strip(x) == StripRight(StripLeft(x))

\* Python's "a or b" on strings.
OrElse(a, b) == IF a # <<>> THEN a ELSE b

\* extract_code_block: the body of the first fenced block; else the stripped text
\* minus a wrapping pair of fence lines or of triple-quote lines. "[fence]" is a
\* line that starts with three backquotes, "[quotes]" one that starts with three
\* double quotes.
Fences(x) == {i \in DOMAIN x : x[i].s = "[fence]"}
OpenFences(x) == {i \in Fences(x) : \E k \in Fences(x) : k >= i + 2}
extract_code_block(x) ==
  IF OpenFences(x) # {}
    THEN LET i == MinOf(OpenFences(x))
             k == MinOf({m \in Fences(x) : m >= i + 2})
         IN  SubSeq(x, i + 1, k - 1)
    ELSE LET lines == Strip(x)
             n == Len(lines)
         IN  IF n >= 2 /\ lines[1].s = "[fence]" /\ lines[n].s = "[fence]"
               THEN SubSeq(lines, 2, n - 1)
             ELSE IF n >= 4 /\ lines[1].s = "[quotes]" /\ lines[n].s = "[quotes]"
               THEN Strip(SubSeq(lines, 2, n - 1))
             ELSE lines

\* ----------------------------------------------------------- RepoAnalyzer
\* A repository snapshot is the sequence of its files in os.walk order.
Ext(name) ==
  CASE name \in {"main.py", "app.py"} -> ".py"
    [] name = "server.js" -> ".js"
    [] name = "main.go" -> ".go"
    [] name = "App.java" -> ".java"
    [] OTHER -> ""

DockerNames == {"dockerfile", "docker-compose.yml", "compose.yaml", "compose.yml"}

\* COMMON_HTTP_HINTS: the fragments one of the regular expressions matches.
COMMON_HTTP_HINTS ==
  {"from flask import ", "from fastapi import ", "django.core", "uvicorn.run",
   "app.run(", "require('express')", "from 'express'", "app.listen(",
   "http.ListenAndServe(", "@RestController", "SpringApplication.run("}

HttpScanned(f) ==
  \/ Ext(f.name) \in {".py", ".js", ".ts", ".go", ".java", ".kt", ".rb", ".rs"}
  \/ LowerStr(f.name) \in {"dockerfile", "compose.yaml", "docker-compose.yml"}

is_http_service(repo) ==
  \E i \in DOMAIN repo :
    /\ HttpScanned(repo[i])
    /\ \E k \in DOMAIN repo[i].text :
         Parts(repo[i].text[k].s) \cap COMMON_HTTP_HINTS # {}

\* PORT_PATTERNS, in order: the fragments pattern p matches (the number that
\* follows the fragment is the captured group).
NumPortPatterns == 6
PortPatterns(p) ==
  CASE p = 1 -> {"EXPOSE "}
    [] p = 2 -> {"ports: - "}
    [] p = 3 -> {"port=", "port = "}
    [] p = 4 -> {"listen("}
    [] p = 5 -> {"run(port="}
    [] p = 6 -> {"--port ", "--port="}

PortMatches(text, p) ==
  {k \in DOMAIN text : text[k].n >= 0 /\ Parts(text[k].s) \cap PortPatterns(p) # {}}

\* re.search gives the leftmost match of the pattern; its group is the port.
PatternPort(text, p) ==
  IF PortMatches(text, p) = {} THEN -1 ELSE text[MinOf(PortMatches(text, p))].n

\* Mutant of InRange: any captured number is taken as a port.
InRangeUnchecked(port) == port >= 0

InRange(port) == 1 <= port /\ port <= 65535

\* The first pattern of the list whose leftmost match is an in-range port.
GoodPatterns(text) == {p \in 1..NumPortPatterns : InRange(PatternPort(text, p))}
FilePort(text) ==
  IF GoodPatterns(text) = {} THEN -1 ELSE PatternPort(text, MinOf(GoodPatterns(text)))

PortScanned(f) ==
  \/ LowerStr(f.name) \in DockerNames
  \/ Ext(f.name) \in {".py", ".js", ".ts", ".go"}

\* The framework table of infer_app_port, in order.
FrameworkHints ==
  << <<"flask", 5000>>, <<"fastapi", 8000>>, <<"django", 8000>>, <<"express", 3000>>,
     <<"next", 3000>>, <<"rails", 3000>>, <<"spring", 8080>>, <<"go", 8080>> >>

FrameworkScanned(f) == Ext(f.name) \in {".py", ".js", ".ts", ".rb", ".java", ".go"}

FrameworkFound(repo, h) ==
  \E i \in DOMAIN repo :
    /\ FrameworkScanned(repo[i])
    /\ In(FrameworkHints[h][1], LowerText(repo[i].text))

DefaultPort == 8080

\* Mutant of infer_app_port: tier 2 goes file by file and answers with the first
\* framework of the table found in the first file that holds one.
infer_app_port_by_file(repo) ==
  LET tier1 == {i \in DOMAIN repo : PortScanned(repo[i]) /\ FilePort(repo[i].text) >= 1}
      found(i) == {h \in DOMAIN FrameworkHints :
                     In(FrameworkHints[h][1], LowerText(repo[i].text))}
      tier2 == {i \in DOMAIN repo : FrameworkScanned(repo[i]) /\ found(i) # {}}
  IN  IF tier1 # {} THEN FilePort(repo[MinOf(tier1)].text)
      ELSE IF tier2 # {} THEN FrameworkHints[MinOf(found(MinOf(tier2)))][2]
      ELSE DefaultPort

infer_app_port(repo) ==
  LET tier1 == {i \in DOMAIN repo : PortScanned(repo[i]) /\ FilePort(repo[i].text) >= 1}
      tier2 == {h \in DOMAIN FrameworkHints : FrameworkFound(repo, h)}
  IN  IF tier1 # {} THEN FilePort(repo[MinOf(tier1)].text)
      ELSE IF tier2 # {} THEN FrameworkHints[MinOf(tier2)][2]
      ELSE DefaultPort

\* detect_localhost_binding: the fragments one of its patterns matches.
LocalhostPatterns ==
  {"app.run(host='127.0.0.1', port=", "host='localhost'", "--host=127.0.0.1"}

detect_localhost_binding(repo) ==
  \E i \in DOMAIN repo :
    /\ Ext(repo[i].name) \in {".py", ".js", ".ts"}
    /\ \E k \in DOMAIN repo[i].text : repo[i].text[k].s \in LocalhostPatterns

has_existing_docker(repo) ==
  \E i \in DOMAIN repo : LowerStr(repo[i].name) \in DockerNames

\* open(path, "w").write(text): the file is replaced, or created at the end.
WriteFile(repo, name, text) ==
  IF \E i \in DOMAIN repo : repo[i].name = name
    THEN [i \in DOMAIN repo |->
            IF repo[i].name = name THEN File(name, text) ELSE repo[i]]
    ELSE Append(repo, File(name, text))

HasFile(repo, name) == \E i \in DOMAIN repo : repo[i].name = name
FileText(repo, name) ==
  repo[CHOOSE i \in DOMAIN repo : repo[i].name = name].text

\* ---------------------------------------------------- acceptance predicates
DEFAULT_AWS_INSTANCE == "t2.small"

\* The decimal digits of p begin the decimal digits of n ("expose 80" occurs in
\* "expose 8080").
MaxPortDigits == 6
RECURSIVE Pow10(_)
Pow10(k) == IF k = 0 THEN 1 ELSE 10 * Pow10(k - 1)
DecPrefix(p, n) == \E k \in 0..MaxPortDigits : n \div Pow10(k) = p

ExposesPort(s, port) ==
  \E i \in DOMAIN s : s[i].s = "expose " /\ s[i].n >= 0 /\ DecPrefix(port, s[i].n)

\* acceptable(df) of ensure_docker_assets.
acceptable(df, internal_port, binds_localhost) ==
  LET s == LowerText(df)
  IN  /\ In("from ", s)
      /\ \/ ExposesPort(s, internal_port)
         \/ In("expose ${port}", s)
         \/ In("expose ${env:port}", s)
      /\ (In("cmd", s) \/ In("entrypoint", s))
      /\ ~In("[fence]", df)
      /\ binds_localhost => In("0.0.0.0", s)

\* The compose check: a services block is present.
compose_acceptable(compose_yaml) == In("services:", compose_yaml)

\* The setup-script check: something is left after strip().
setup_acceptable(setup_script) == Strip(setup_script) # <<>>

\* Mutant of is_llm_tf_acceptable: the instance type, the upload path and the
\* make invocation are not required.
is_llm_tf_acceptable_lax(code) ==
  LET code_l == LowerText(code)
  IN  /\ ~In("aws_key_pair", code_l)
      /\ In("egress", code_l)
      /\ In("tls_private_key", code_l)

is_llm_tf_acceptable(code) ==
  LET code_l == LowerText(code)
  IN  /\ ~In("aws_key_pair", code_l)
      /\ In("egress", code_l)
      /\ In("tls_private_key", code_l)
      /\ In(DEFAULT_AWS_INSTANCE, code_l)
      /\ In("/home/ubuntu/app.tar.gz", code)
      /\ In("make up", code_l)

\* ---------------------------------------------------------------- templates
\* A template is a sequence of pieces: literal text, a placeholder replaced by a
\* text ({name}), or a literal followed by a placeholder replaced by a number.
Lit(s) == [kind |-> "lit", key |-> "", tok |-> Tok(s)]
TextPh(key) == [kind |-> "text", key |-> key, tok |-> Tok("")]
NumPh(s, key) == [kind |-> "num", key |-> key, tok |-> Tok(s)]

RECURSIVE Render(_, _)
Render(tpl, kw) ==
  IF tpl = <<>> THEN <<>>
  ELSE LET h == Head(tpl)
           out == CASE h.kind = "lit" -> <<h.tok>>
                    [] h.kind = "text" -> kw[h.key]
                    [] h.kind = "num" -> <<Num(h.tok.s, kw[h.key])>>
       IN  out \o Render(Tail(tpl), kw)

\* The outcome of a call that returns a text or raises.
Returned(x) == [ok |-> TRUE, err |-> "", text |-> x]
Raised(err) == [ok |-> FALSE, err |-> err, text |-> <<>>]

\* str.format(**kw): KeyError when a placeholder has no keyword argument.
Format(tpl, kw) ==
  IF \E i \in DOMAIN tpl : tpl[i].kind # "lit" /\ tpl[i].key \notin DOMAIN kw
    THEN Raised("KeyError")
    ELSE Returned(Render(tpl, kw))

COMPOSE_TEMPLATE ==
  << Lit("version: '3.9'"), Lit("services:"), Lit("app:"), Lit("build:"),
     Lit("context: ./repo"), Lit("dockerfile: ../Dockerfile"), Lit("ports:"),
     NumPh("8080:", "internal_port"), NumPh("PORT=", "internal_port") >>

MAKEFILE_TEMPLATE ==
  << Tok(".PHONY: up down logs"), Tok("up:"), Tok("bash ./setup.sh"),
     Tok("docker compose up -d --build"), Tok("docker compose ps"),
     Tok("logs:"), Tok("down:") >>

AMI_DATA_SNIPPET == << Tok("data aws_ami ubuntu") >>

TarTo(dest, slashes) == Num(dest, slashes)
OptDir == "tar -xzf /home/ubuntu/app.tar.gz -C /opt"
OptAppDir == "tar -xzf /home/ubuntu/app.tar.gz -C /opt/app"
\* The same extraction written with tar's old-style option bundle, which the
\* patterns of _normalize_tf do not match.
OptAppOldStyle == "tar xzf /home/ubuntu/app.tar.gz -C /opt/app"

REMOTE_EXEC_SNIPPET ==
  << Tok("provisioner remote-exec"), Tok("sudo -n mkdir -p /opt"),
     TarTo(OptDir, 1), Tok("cd /opt/app && sudo -n -E make up") >>

TERRAFORM_FALLBACK_TEMPLATE ==
  << Lit("resource tls_private_key ssh"), TextPh("ami_data_snippet"),
     Lit("egress {"), Lit("instance_type = "), TextPh("instance_type"),
     Lit("user_data = <<-EOT"), Lit("Name = autodeployer-"), TextPh("name_suffix"),
     Lit("destination = /home/ubuntu/app.tar.gz"), TextPh("remote_exec_snippet") >>

\* re.sub that puts the docker service start before the make invocation.
RECURSIVE EnsureDockerStart(_)
EnsureDockerStart(x) ==
  IF x = <<>> THEN <<>>
  ELSE IF Head(x).s = "cd /opt/app && sudo -n make up"
    THEN <<Tok("sudo -n systemctl enable --now docker"), Head(x)>>
           \o EnsureDockerStart(Tail(x))
    ELSE <<Head(x)>> \o EnsureDockerStart(Tail(x))

terraform_fallback_main_tf(name_suffix) ==
  LET r == Format(TERRAFORM_FALLBACK_TEMPLATE,
                  [instance_type |-> <<Tok(DEFAULT_AWS_INSTANCE)>>,
                   name_suffix |-> <<Tok(name_suffix)>>,
                   ami_data_snippet |-> AMI_DATA_SNIPPET])
  IN  IF r.ok THEN Returned(EnsureDockerStart(r.text)) ELSE r

\* DOCKERFILE_FALLBACK_TEMPLATE.format(internal_port=...): templates.py binds no
\* such name, so there is no text to format and the reference raises.
dockerfile_fallback(internal_port) ==
  Raised("DOCKERFILE_FALLBACK_TEMPLATE is not defined")

compose_fallback(internal_port, dockerized, binds_localhost) ==
  IF ~dockerized
    THEN Format(COMPOSE_TEMPLATE, [internal_port |-> internal_port])
    ELSE Returned(
      << Tok("version: '3.9'"), Tok("services:"), Tok("dind:"),
         Tok("image: docker:27-dind"), Tok("ports:"), Tok("8080:8080"),
         IF binds_localhost
           THEN Tok("echo 'Bypassing inner compose to enforce external bind'")
           ELSE Tok("docker compose up -d --build"),
         Num("docker run -d -p 8080:", internal_port) >>)

setup_fallback ==
  << Tok("#!/usr/bin/env bash"), Tok("set -euo pipefail"),
     Tok("echo 'No setup required.'") >>

\* ------------------------------------------------------- post-processing
\* compose: .replace("${PORT}", "$$PORT").replace("${port}", "$$PORT"), then
\* .replace("8080:${PORT}", "8080:<port>") and the same for ${port}.
ReplacePortVar(t) ==
  CASE t.s \in {"${PORT}", "${port}"} -> Tok("$$PORT")
    [] t.s \in {"8080:${PORT}", "8080:${port}"} -> Tok("8080:$$PORT")
    [] OTHER -> t

ReplacePortMapping(t, internal_port) ==
  IF t.s \in {"8080:${PORT}", "8080:${port}"} THEN Num("8080:", internal_port) ELSE t

compose_postprocess(y, internal_port) ==
  [i \in DOMAIN y |-> ReplacePortMapping(ReplacePortVar(y[i]), internal_port)]

\* setup.sh: the shebang and the fail-fast line are put in front when the first
\* line holds no shebang.
setup_normalize(script) ==
  IF ~In("#!/", IF script = <<>> THEN <<>> ELSE <<Head(script)>>)
    THEN <<Tok("#!/usr/bin/env bash"), Tok("set -euo pipefail")>> \o script
    ELSE script

\* _normalize_tf: three re.sub passes. A tar fragment carries the number of
\* slashes that follow its destination directory.
NormalizeTok(t) ==
  LET a == IF t.s = OptAppDir THEN TarTo(OptDir, t.n + 1) ELSE t
      b == IF a.s = OptDir THEN TarTo(OptDir, a.n + 1) ELSE a
  IN  CASE b.s = "cd /opt/app/app" -> Tok("cd /opt/app")
        [] b.s = "cd /opt/app/app && sudo -n make up" ->
             Tok("cd /opt/app && sudo -n make up")
        [] OTHER -> b

\* Mutant of normalize_tf: the cd substitution takes the rest of the line with
\* it, so the command that follows the directory change is lost.
normalize_tf_cut(code) ==
  [i \in DOMAIN code |->
     IF "cd /opt/app" \in Parts(code[i].s)
       THEN Tok("cd /opt/app")
       ELSE NormalizeTok(code[i])]

normalize_tf(code) == [i \in DOMAIN code |-> NormalizeTok(code[i])]

\* apply_repo_rewrites: every http(s)://localhost:<1-5 digits> is cut out of every
\* file of the repository directory.
IsLocalUrl(t) ==
  t.s \in {"http://localhost:", "https://localhost:"} /\ 0 <= t.n /\ t.n <= 99999

RECURSIVE CutUrls(_)
CutUrls(x) ==
  IF x = <<>> THEN <<>>
  ELSE IF IsLocalUrl(Head(x)) THEN CutUrls(Tail(x))
  ELSE <<Head(x)>> \o CutUrls(Tail(x))

apply_repo_rewrites(repo) ==
  [i \in DOMAIN repo |-> File(repo[i].name, CutUrls(repo[i].text))]

\* ------------------------------------------------------ artifact selection
Kinds == {"build-file", "compose-file", "setup-script", "infra-file"}

Generated(x) == [ok |-> TRUE, err |-> "", text |-> x, src |-> "generated"]
Fallback(r) == [ok |-> r.ok, err |-> r.err, text |-> r.text, src |-> "fallback"]

\* Mutant of build_file_select: the candidate is written without the policy check.
build_file_unchecked(answer, internal_port, binds_localhost) ==
  IF answer.ok /\ extract_code_block(answer.text) # <<>>
    THEN Generated(Strip(extract_code_block(answer.text)))
    ELSE Fallback(dockerfile_fallback(internal_port))

\* Dockerfile: the oracle's candidate if the call returned and acceptable() holds;
\* any exception of the try block leads to the fallback, outside the try.
build_file_select(answer, internal_port, binds_localhost) ==
  LET dockerfile_llm == extract_code_block(answer.text)
  IN  IF /\ answer.ok
         /\ dockerfile_llm # <<>>
         /\ acceptable(dockerfile_llm, internal_port, binds_localhost)
        THEN Generated(Strip(dockerfile_llm))
        ELSE Fallback(dockerfile_fallback(internal_port))

\* setup.sh: the candidate, normalized, unless it is blank.
setup_select(answer) ==
  LET setup_script == OrElse(extract_code_block(answer.text), answer.text)
  IN  IF answer.ok /\ setup_acceptable(setup_script)
        THEN Generated(Strip(setup_normalize(setup_script)))
        ELSE Fallback(Returned(setup_fallback))

\* docker-compose.yml: the candidate, post-processed, if it holds a services block.
compose_select(answer, internal_port, dockerized, binds_localhost) ==
  LET compose_yaml == OrElse(extract_code_block(answer.text), answer.text)
  IN  IF answer.ok /\ compose_acceptable(compose_yaml)
        THEN Generated(Strip(compose_postprocess(compose_yaml, internal_port)))
        ELSE Fallback(compose_fallback(internal_port, dockerized, binds_localhost))

\* main.tf: the candidate if is_llm_tf_acceptable holds, else the fallback with
\* the docker service start inserted once more.
infra_select(answer, short_id) ==
  LET code == extract_code_block(answer.text)
      fb == terraform_fallback_main_tf(short_id)
  IN  IF answer.ok /\ code # <<>> /\ is_llm_tf_acceptable(code)
        THEN Generated(code)
        ELSE Fallback(IF fb.ok THEN Returned(EnsureDockerStart(fb.text)) ELSE fb)

\* Mutant of run: the exit code is not looked at.
runIgnoringExit(cmd, code) == Returned(<<>>)

\* run(cmd): RuntimeError when the process exits non-zero.
run(cmd, code) == IF code = 0 THEN Returned(<<>>) ELSE Raised("Command failed")

\* ------------------------------------------------------------ environment
\* Repositories a clone can deliver.
RepoStatic ==
  << File("README.md", <<Tok("from flask import "), Tok("app.run(")>>) >>
RepoFlask ==
  << File("main.py", <<Tok("from flask import "), Tok("app.run(")>>) >>
RepoLocal ==
  << File("app.py", <<Tok("from fastapi import "), Tok("host='localhost'"),
                      Num("port=", 8000), Num("http://localhost:", 8000)>>) >>
RepoDocker ==
  << File("Dockerfile", <<Tok("FROM "), Num("EXPOSE ", 3000), Tok("CMD")>>),
     File("docker-compose.yml", <<Tok("services:"), Tok("8080:${PORT}")>>),
     File("server.js", <<Tok("require('express')"), Num("app.listen(", 3000)>>) >>
RepoDockerLocal ==
  << File("compose.yaml", <<Tok("services:")>>),
     File("main.py", <<Num("app.run(host='127.0.0.1', port=", 5000)>>) >>
RepoPort80 ==
  << File("main.py", <<Tok("from flask import "), Num("run(port=", 80)>>) >>
Repos == {RepoStatic, RepoFlask, RepoLocal, RepoDocker, RepoDockerLocal, RepoPort80}

\* Generated snapshots: up to MaxFiles files with distinct names, each holding a
\* framework line or none, followed by port literals or none.
SnapshotNames == {"Dockerfile", "main.py", "server.js"}

HintLines ==
  { <<>>, <<Tok("from fastapi import ")>>, <<Tok("from Flask import ")>>,
    <<Tok("django.core")>> }

PortLines ==
  { <<>>, <<Num("port=", 0), Num("port=", 8000)>>, <<Num("port=", 70000)>>,
    <<Num("EXPOSE ", 0), Num("--port ", 3000)>>, <<Num("EXPOSE ", 3000)>> }

SnapshotFiles ==
  {File(n, h \o l) : n \in SnapshotNames, h \in HintLines, l \in PortLines}

DistinctNames(q) == \A a, b \in DOMAIN q : q[a].name = q[b].name => a = b

Snapshots ==
  UNION {{q \in [1..n -> SnapshotFiles] : DistinctNames(q)} : n \in 1..MaxFiles}

\* What the oracle client raises: no credential, transport failure, empty content.
OracleErrors ==
  {"OPENAI_API_KEY not set", "transport error", "Empty response from OpenAI"}

TfBase ==
  << Tok("[fence]"), Tok("resource tls_private_key ssh"), Tok("egress {"),
     Tok("instance_type = t2.small"), Tok("user_data = <<-EOT"),
     Tok("destination = /home/ubuntu/app.tar.gz"), TarTo(OptAppDir, 0),
     Tok("cd /opt/app && sudo -n -E make up"), Tok("[fence]") >>
TfWithout(s) == SelectSeq(TfBase, LAMBDA t : t.s # s)
TfOldStyle == [i \in DOMAIN TfBase |->
                 IF TfBase[i].s = OptAppDir THEN Tok(OptAppOldStyle) ELSE TfBase[i]]
TfWith(s) == <<TfBase[1], Tok(s)>> \o Tail(TfBase)
\* TfBase without any line that names the upload path.
TfNoUpload ==
  SelectSeq(TfBase, LAMBDA t : "/home/ubuntu/app.tar.gz" \notin Parts(t.s))
\* TfBase with the upload path written in upper case.
UpperPath(s) ==
  CASE s = "destination = /home/ubuntu/app.tar.gz" ->
         "destination = /HOME/UBUNTU/APP.TAR.GZ"
    [] s = OptAppDir -> "tar -xzf /HOME/UBUNTU/APP.TAR.GZ -C /opt/app"
    [] OTHER -> s
TfUpperPath == [i \in DOMAIN TfBase |-> [TfBase[i] EXCEPT !.s = UpperPath(@)]]

\* Texts the oracle can answer with, per artifact kind.
Candidates(kind) ==
  CASE kind = "build-file" ->
         { <<Tok("FROM "), Tok("EXPOSE ${PORT}"), Tok("CMD"),
             Tok("gunicorn app:app -b 0.0.0.0:")>>,
           <<Tok("FROM "), Num("EXPOSE ", 5000), Tok("CMD")>>,
           <<Tok("[fence]"), Tok("FROM "), Num("EXPOSE ", 5000), Tok("CMD")>>,
           <<Tok("FROM "), Num("EXPOSE ", 8080), Tok("CMD")>> }
    [] kind = "setup-script" ->
         { <<Tok("#!/usr/bin/env bash"), Tok("set -euo pipefail"), Tok("echo setup")>>,
           <<Tok("echo setup")>>,
           <<Tok("#!/bin/sh"), Tok("echo setup")>>,
           <<Tok(" ")>> }
    [] kind = "compose-file" ->
         { <<Tok("services:"), Tok("8080:${PORT}"), Num("http://localhost:", 5000)>>,
           <<Tok("version: '3.9'")>> }
    [] kind = "infra-file" ->
         { TfBase, TfWith("resource aws_key_pair deployer"), TfWithout("egress {"),
           TfWithout("resource tls_private_key ssh"), TfOldStyle,
           TfWithout("user_data = <<-EOT"), TfWithout("instance_type = t2.small"),
           TfNoUpload, TfWithout("cd /opt/app && sudo -n -E make up"), TfUpperPath }

OracleAnswers(kind) ==
  {Raised(e) : e \in OracleErrors} \cup {Returned(c) : c \in Candidates(kind)}

NotAsked == Raised("not asked")

\* ------------------------------------------------------------ JobManager
\* "with self._lock": the mutex is free (a thread that finds it held waits).
LockFree == lock = "free"

\* One entry of a job's "logs" list: the message and its one argument.
LogLine(msg, arg) == [msg |-> msg, arg |-> arg]

\* The record create_job stores under job_id.
NewJob(j) ==
  [id |-> j, status |-> queued, workdir |-> j, logs |-> <<>>,
   result |-> "None", error |-> "None"]

\* _set_status: writes the status if the id is registered.
SetStatus(js, j, s) ==
  IF j \in DOMAIN js THEN [js EXCEPT ![j].status = s] ELSE js

\* Mutant of Emit: the logger carries two handlers for the same list, as when
\* get_job_logger did not look for the handler it had attached before.
EmitTwice(js, j, msg, arg) ==
  IF j \in DOMAIN js
    THEN [js EXCEPT ![j].logs = @ \o <<LogLine(msg, arg), LogLine(msg, arg)>>]
    ELSE js

\* A record sent through the job's logger: InMemoryJobLogger.emit appends the
\* formatted message to the list object of the job record (the handler is attached
\* by get_job_logger when the id is registered).
Emit(js, j, msg, arg) ==
  IF j \in DOMAIN js
    THEN [js EXCEPT ![j].logs = Append(@, LogLine(msg, arg))]
    ELSE js

\* Mutant of CreateJob: the id is not fresh, create_job replaces the record.
CreateJobReused(j) ==
  /\ LockFree
  /\ handler = 0
  /\ jobs' = [x \in DOMAIN jobs \cup {j} |-> IF x = j THEN NewJob(j) ELSE jobs[x]]
  /\ handler' = j
  /\ UNCHANGED <<workq, executing, pc, cause, obs, pipeVars, lockVars, resp>>

\* request_deploy, first half: uuid4 draws a fresh id, create_job registers it.
CreateJob(j) ==
  /\ LockFree
  /\ handler = 0
  /\ j \notin DOMAIN jobs
  /\ jobs' = [x \in DOMAIN jobs \cup {j} |-> IF x = j THEN NewJob(j) ELSE jobs[x]]
  /\ handler' = j
  /\ UNCHANGED <<workq, executing, pc, cause, obs, pipeVars, lockVars, resp>>

\* Mutant of Submit: hands the job to the executor without marking it running.
SubmitNoRunning(j) ==
  /\ LockFree
  /\ handler = j
  /\ jobs' = Emit(jobs, j, "Job started", "")
  /\ workq' = Append(workq, j)
  /\ handler' = 0
  /\ resp' = [resp EXCEPT ![j] = queued]
  /\ UNCHANGED <<executing, pc, cause, obs, pipeVars, lockVars>>

\* request_deploy, second half: JobManager.submit sets the status to running in
\* the calling thread, logs "Job started" and hands _wrapper to the executor.
Submit(j) ==
  /\ LockFree
  /\ handler = j
  /\ jobs' = Emit(SetStatus(jobs, j, running), j, "Job started", "")
  /\ workq' = Append(workq, j)
  /\ handler' = 0
  /\ resp' = [resp EXCEPT ![j] = queued]
  /\ UNCHANGED <<executing, pc, cause, obs, pipeVars, lockVars>>

\* Mutant of WorkerStart: the newest queued _wrapper is taken.
WorkerStartNewest(j) ==
  /\ workq # <<>>
  /\ workq[Len(workq)] = j
  /\ Cardinality(executing) < MaxWorkers
  /\ workq' = SubSeq(workq, 1, Len(workq) - 1)
  /\ executing' = executing \cup {j}
  /\ pc' = [pc EXCEPT ![j] = "start"]
  /\ UNCHANGED <<jobs, handler, cause, obs, pipeVars, lockVars, resp>>

\* A free worker thread of the pool takes the oldest queued _wrapper and calls fn.
WorkerStart(j) ==
  /\ workq # <<>>
  /\ Head(workq) = j
  /\ Cardinality(executing) < MaxWorkers
  /\ workq' = Tail(workq)
  /\ executing' = executing \cup {j}
  /\ pc' = [pc EXCEPT ![j] = "start"]
  /\ UNCHANGED <<jobs, handler, cause, obs, pipeVars, lockVars, resp>>

\* _wrapper after fn() returned: status completed, then the closing log line.
WrapperCompleted(j) ==
  /\ LockFree
  /\ pc[j] = "ret"
  /\ jobs' = Emit(SetStatus(jobs, j, completed), j, "Job completed successfully", "")
  /\ pc' = [pc EXCEPT ![j] = "done"]
  /\ executing' = executing \ {j}
  /\ UNCHANGED <<workq, handler, cause, obs, pipeVars, lockVars, resp>>

\* Mutant of WrapperFailed: the exception is logged and the status left alone.
WrapperFailedNoStatus(j) ==
  /\ LockFree
  /\ pc[j] = "exc"
  /\ jobs' = Emit(jobs, j, "Job failed: %s", cause[j])
  /\ pc' = [pc EXCEPT ![j] = "done"]
  /\ executing' = executing \ {j}
  /\ UNCHANGED <<workq, handler, cause, obs, pipeVars, lockVars, resp>>

\* _wrapper after fn() raised: status failed, then the exception is logged. The
\* record's error field is not assigned.
WrapperFailed(j) ==
  /\ LockFree
  /\ pc[j] = "exc"
  /\ jobs' = Emit(SetStatus(jobs, j, failed), j, "Job failed: %s", cause[j])
  /\ pc' = [pc EXCEPT ![j] = "done"]
  /\ executing' = executing \ {j}
  /\ UNCHANGED <<workq, handler, cause, obs, pipeVars, lockVars, resp>>

\* GET /job/{id}: get_job under the lock; 404 when the id is not registered.
GetJob(j) ==
  /\ LockFree
  /\ obs' = IF j \in DOMAIN jobs
              THEN [id |-> j, status |-> jobs[j].status]
              ELSE [id |-> j, status |-> "404"]
  /\ UNCHANGED <<jobs, workq, executing, handler, pc, cause, pipeVars, lockVars, resp>>

\* GET /list, list_jobs: "with self._lock" is entered and the result list is empty.
ListJobsEnter ==
  /\ LockFree
  /\ lock' = "list_jobs"
  /\ listing' = <<>>
  /\ UNCHANGED <<jobs, workq, executing, handler, pc, cause, obs, pipeVars, resp>>

\* list_jobs, one turn of the loop over self._jobs.values(): the record without
\* its logs, and the length of its logs as log_count. The registered ids are
\* visited in one fixed order.
ListJobsVisit(j) ==
  /\ lock = "list_jobs"
  /\ j \in DOMAIN jobs
  /\ j = Len(listing) + 1 + Cardinality({x \in 1..j : x \notin DOMAIN jobs})
  /\ listing' = Append(listing, [id |-> j, status |-> jobs[j].status,
                                  log_count |-> Len(jobs[j].logs)])
  /\ UNCHANGED <<jobs, workq, executing, handler, pc, cause, obs, pipeVars, lock, resp>>

\* list_jobs leaves the with block and returns the list.
ListJobsReturn ==
  /\ lock = "list_jobs"
  /\ Len(listing) = Cardinality(DOMAIN jobs)
  /\ lock' = "free"
  /\ UNCHANGED <<jobs, workq, executing, handler, pc, cause, obs, pipeVars, listing, resp>>

\* ------------------------------------------------ fn as an arbitrary callable
\* fn emits a line through the job's logger.
FnLog(j) ==
  /\ pc[j] = "start"
  /\ Len(jobs[j].logs) < 1 + MaxFnLogs
  /\ jobs' = Emit(jobs, j, "fn output", "")
  /\ UNCHANGED <<workq, executing, handler, pc, cause, obs, pipeVars, lockVars, resp>>

\* fn() returns.
FnReturn(j) ==
  /\ pc[j] = "start"
  /\ pc' = [pc EXCEPT ![j] = "ret"]
  /\ UNCHANGED <<jobs, workq, executing, handler, cause, obs, pipeVars, lockVars, resp>>

\* fn() raises an Exception.
FnRaise(j) ==
  /\ pc[j] = "start"
  /\ pc' = [pc EXCEPT ![j] = "exc"]
  /\ cause' = [cause EXCEPT ![j] = "RuntimeError"]
  /\ UNCHANGED <<jobs, workq, executing, handler, obs, pipeVars, lockVars, resp>>

\* ------------------------------------------- fn = process_deploy_request
mgrRest == <<workq, executing, handler, obs, dry, lock, listing, resp>>

St(name) == <<name, "">>
ShortId(j) == "id8"

Goto(j, p) == pc' = [pc EXCEPT ![j] = p] /\ cause' = cause
Raise(j, e) == pc' = [pc EXCEPT ![j] = "exc"] /\ cause' = [cause EXCEPT ![j] = e]
Did(j, stages) == hist' = [hist EXCEPT ![j] = @ \o stages]
Logged(j, msg) == jobs' = Emit(jobs, j, msg, "")
Ran(l, cmd, code) == [l EXCEPT !.runs = Append(@, <<cmd, code>>)]

\* run(): the lines the process writes to its stdout/stderr pipe, each sent to
\* the job's logger as it is read, before the exit code is looked at.
ToolOutput(cmd, n) == [i \in 1..n |-> LogLine(cmd, ToString(i))]
EmitLines(js, j, lines) ==
  IF j \in DOMAIN js THEN [js EXCEPT ![j].logs = @ \o lines] ELSE js
Streamed(j, lines) == jobs' = EmitLines(jobs, j, lines)
RanOut(l, cmd, code, lines) == [Ran(l, cmd, code) EXCEPT !.out = @ \o lines]

\* clone_repo: git clone through run(); the tree is then listed and logged.
CloneFrom(j, repos) ==
  /\ pc[j] = "start"
  /\ Did(j, <<St("clone")>>)
  /\ \E code \in {0, 1} :
       LET r == run("git clone", code)
       IN  IF r.ok
             THEN \E repo \in repos :
                    /\ fs' = [fs EXCEPT ![j].repo = repo]
                    /\ loc' = [loc EXCEPT ![j] = [Ran(@, "git clone", code)
                                                    EXCEPT !.cloned = repo]]
                    /\ Goto(j, "gate")
                    /\ Logged(j, "Repository tree (max depth 4)")
             ELSE /\ fs' = fs
                  /\ loc' = [loc EXCEPT ![j] = Ran(@, "git clone", code)]
                  /\ Raise(j, r.err)
                  /\ Logged(j, "Cloning repository: %s")
  /\ UNCHANGED <<orc, mgrRest>>

Clone(j) == CloneFrom(j, Repos)

\* The clone of any of the generated snapshots.
CloneSnapshot(j) == CloneFrom(j, Snapshots)

\* Mutant of Gate: the denial is not raised.
GateAlwaysPasses(j) ==
  /\ pc[j] = "gate"
  /\ Did(j, <<St("gate")>>)
  /\ Goto(j, "port")
  /\ UNCHANGED <<jobs, loc, fs, orc, mgrRest>>

\* The gate: a repository that is_http_service rejects is denied.
Gate(j) ==
  /\ pc[j] = "gate"
  /\ Did(j, <<St("gate")>>)
  /\ IF is_http_service(fs[j].repo)
       THEN Goto(j, "port")
       ELSE Raise(j, "Denied: repository does not appear to expose an HTTP-accessible server.")
  /\ UNCHANGED <<jobs, loc, fs, orc, mgrRest>>

InferPort(j) ==
  /\ pc[j] = "port"
  /\ Did(j, <<St("infer_port")>>)
  /\ loc' = [loc EXCEPT ![j].port = infer_app_port(fs[j].repo)]
  /\ Logged(j, "Inferred app port")
  /\ Goto(j, "assets")
  /\ UNCHANGED <<fs, orc, mgrRest>>

\* ensure_docker_assets, repository without containerization: the Dockerfile.
SynthBuildFile(j) ==
  /\ pc[j] = "assets"
  /\ ~has_existing_docker(fs[j].repo)
  /\ LET binds == detect_localhost_binding(fs[j].repo)
     IN  /\ loc' = [loc EXCEPT ![j].dockerized = FALSE, ![j].binds = binds]
         /\ \E a \in OracleAnswers("build-file") :
              LET sel == build_file_select(a, loc[j].port, binds)
              IN  /\ orc' = [orc EXCEPT ![j]["build-file"] = a]
                  /\ IF sel.ok
                       THEN /\ fs' = [fs EXCEPT ![j].repo = WriteFile(@, "Dockerfile", sel.text)]
                            /\ Goto(j, "compose")
                       ELSE /\ fs' = fs
                            /\ Raise(j, sel.err)
  /\ Did(j, <<<<"oracle", "build-file">>, <<"synth", "build-file">>>>)
  /\ Logged(j, "Requesting Dockerfile generation from OpenAI model...")
  /\ UNCHANGED mgrRest

\* ensure_docker_assets, repository with containerization: setup.sh.
SynthSetup(j) ==
  /\ pc[j] = "assets"
  /\ has_existing_docker(fs[j].repo)
  /\ loc' = [loc EXCEPT ![j].dockerized = TRUE,
                        ![j].binds = detect_localhost_binding(fs[j].repo)]
  /\ \E a \in OracleAnswers("setup-script") :
       LET sel == setup_select(a)
       IN  /\ orc' = [orc EXCEPT ![j]["setup-script"] = a]
           /\ fs' = [fs EXCEPT ![j].repo = WriteFile(@, "setup.sh", sel.text)]
  /\ Goto(j, "compose")
  /\ Did(j, <<<<"oracle", "setup-script">>, <<"synth", "setup-script">>>>)
  /\ Logged(j, "Requesting setup.sh generation from OpenAI model...")
  /\ UNCHANGED mgrRest

\* ensure_docker_assets, both cases: docker-compose.yml, then the Makefile.
SynthCompose(j) ==
  /\ pc[j] = "compose"
  /\ \E a \in OracleAnswers("compose-file") :
       LET sel == compose_select(a, loc[j].port, loc[j].dockerized, loc[j].binds)
       IN  /\ orc' = [orc EXCEPT ![j]["compose-file"] = a]
           /\ fs' = [fs EXCEPT ![j].repo =
                       WriteFile(WriteFile(@, "docker-compose.yml", sel.text),
                                 "Makefile", MAKEFILE_TEMPLATE)]
  /\ Goto(j, "rewrites")
  /\ Did(j, <<<<"oracle", "compose-file">>, <<"synth", "compose-file">>, St("makefile")>>)
  /\ Logged(j, "Containerization assets written/updated")
  /\ UNCHANGED <<loc, mgrRest>>

\* Mutant of Rewrites: the pipeline goes on to main.tf without archiving.
RewritesSkipArchive(j) ==
  /\ pc[j] = "rewrites"
  /\ fs' = [fs EXCEPT ![j].repo = apply_repo_rewrites(@)]
  /\ Goto(j, "infra")
  /\ Did(j, <<St("rewrites")>>)
  /\ Logged(j, "No references found to rewrite.")
  /\ UNCHANGED <<loc, orc, mgrRest>>

\* process_deploy_request after ensure_docker_assets: apply_repo_rewrites.
Rewrites(j) ==
  /\ pc[j] = "rewrites"
  /\ fs' = [fs EXCEPT ![j].repo = apply_repo_rewrites(@)]
  /\ Goto(j, "archive")
  /\ Did(j, <<St("rewrites")>>)
  /\ Logged(j, "No references found to rewrite.")
  /\ UNCHANGED <<loc, orc, mgrRest>>

\* archive_repo's arcname: the single top-level directory of app.tar.gz.
ArchiveRoot == "app"

\* A path is the sequence of its components. The directory a tar line extracts
\* into, the directory the archive's tree then lies in, and the directory a run
\* line enters.
IsTar(t) == t.s \in {OptDir, OptAppDir, OptAppOldStyle}
TarDest(t) == IF t.s = OptDir THEN <<"opt">> ELSE <<"opt", "app">>
Extracted(t) == Append(TarDest(t), ArchiveRoot)
IsCd(t) == Parts(t.s) \cap {"cd /opt/app", "cd /opt/app/app"} # {}
CdDir(t) ==
  IF "cd /opt/app/app" \in Parts(t.s) THEN <<"opt", "app", "app">> ELSE <<"opt", "app">>

\* archive_repo: the repository directory goes into app.tar.gz under "app"; the
\* file system may refuse.
Archive(j) ==
  /\ pc[j] = "archive"
  /\ Did(j, <<St("archive")>>)
  /\ \E fault \in BOOLEAN :
       IF fault
         THEN /\ Raise(j, "OSError")
              /\ loc' = [loc EXCEPT ![j].iofault = TRUE]
              /\ UNCHANGED <<fs, jobs>>
         ELSE /\ fs' = [fs EXCEPT ![j].tar = fs[j].repo]
              /\ Goto(j, "infra")
              /\ Logged(j, "Prepared project archive: %s")
              /\ loc' = loc
  /\ UNCHANGED <<orc, mgrRest>>

\* The oracle request for main.tf, the choice between its answer and the
\* fallback, and _normalize_tf.
SynthInfra(j) ==
  /\ pc[j] = "infra"
  /\ \E a \in OracleAnswers("infra-file") :
       LET sel == infra_select(a, ShortId(j))
       IN  /\ orc' = [orc EXCEPT ![j]["infra-file"] = a]
           /\ IF sel.ok
                THEN /\ loc' = [loc EXCEPT ![j].main_tf = normalize_tf(sel.text)]
                     /\ Goto(j, "persist")
                     /\ Did(j, <<<<"oracle", "infra-file">>, <<"synth", "infra-file">>,
                                 St("normalize")>>)
                ELSE /\ loc' = loc
                     /\ Raise(j, sel.err)
                     /\ Did(j, <<<<"oracle", "infra-file">>, <<"synth", "infra-file">>>>)
  /\ Logged(j, "Requesting Terraform generation from OpenAI model...")
  /\ UNCHANGED <<fs, mgrRest>>

\* main.tf is written and the archive copied next to it.
Persist(j) ==
  /\ pc[j] = "persist"
  /\ Did(j, <<St("persist")>>)
  /\ \E fault \in BOOLEAN :
       IF fault
         THEN /\ Raise(j, "OSError")
              /\ loc' = [loc EXCEPT ![j].iofault = TRUE]
              /\ UNCHANGED <<fs, jobs>>
         ELSE /\ fs' = [fs EXCEPT ![j].tf = [main_tf |-> loc[j].main_tf, tar |-> fs[j].tar]]
              /\ Goto(j, "init")
              /\ Logged(j, "Executing Terraform init/apply in %s")
              /\ loc' = loc
  /\ UNCHANGED <<orc, mgrRest>>

\* Mutant of TfInit: a failed initialize step is tried again.
TfInitRetry(j) ==
  /\ pc[j] = "init"
  /\ Did(j, <<St("terraform init")>>)
  /\ \E code \in {0, 1}, n \in 0..MaxToolLines :
       LET lines == ToolOutput("terraform init", n)
       IN  /\ loc' = [loc EXCEPT ![j] = RanOut(@, "terraform init", code, lines)]
           /\ Streamed(j, lines)
           /\ Goto(j, IF code = 0 THEN "plan" ELSE "init")
  /\ UNCHANGED <<fs, orc, mgrRest>>

\* run(["terraform", "init"]).
TfInit(j) ==
  /\ pc[j] = "init"
  /\ Did(j, <<St("terraform init")>>)
  /\ \E code \in {0, 1}, n \in 0..MaxToolLines :
       LET r == run("terraform init", code)
           lines == ToolOutput("terraform init", n)
       IN  /\ loc' = [loc EXCEPT ![j] = RanOut(@, "terraform init", code, lines)]
           /\ Streamed(j, lines)
           /\ IF r.ok THEN Goto(j, "plan") ELSE Raise(j, r.err)
  /\ UNCHANGED <<fs, orc, mgrRest>>

\* Mutant of TfPlanOrApply: apply runs whatever DRY_TERRAFORM_DEPLOYS says.
TfApplyAlways(j) ==
  /\ pc[j] = "plan"
  /\ LET cmd == "terraform apply"
     IN  /\ Did(j, <<St(cmd)>>)
         /\ \E code \in {0, 1}, n \in 0..MaxToolLines :
              LET r == run(cmd, code)
                  lines == ToolOutput(cmd, n)
              IN  /\ loc' = [loc EXCEPT ![j] = RanOut(@, cmd, code, lines)]
                  /\ Streamed(j, lines)
                  /\ IF r.ok THEN Goto(j, "ret") ELSE Raise(j, r.err)
  /\ UNCHANGED <<fs, orc, mgrRest>>

\* run(["terraform", "plan", ...]) when DRY_TERRAFORM_DEPLOYS, else apply.
TfPlanOrApply(j) ==
  /\ pc[j] = "plan"
  /\ LET cmd == IF dry THEN "terraform plan" ELSE "terraform apply"
     IN  /\ Did(j, <<St(cmd)>>)
         /\ \E code \in {0, 1}, n \in 0..MaxToolLines :
              LET r == run(cmd, code)
                  lines == ToolOutput(cmd, n)
              IN  /\ loc' = [loc EXCEPT ![j] = RanOut(@, cmd, code, lines)]
                  /\ Streamed(j, lines)
                  /\ IF r.ok THEN Goto(j, "ret") ELSE Raise(j, r.err)
  /\ UNCHANGED <<fs, orc, mgrRest>>

\* Locals of process_deploy_request before it runs; an empty working directory;
\* no oracle request made.
NoLoc ==
  [cloned |-> <<>>, port |-> 0, dockerized |-> FALSE, binds |-> FALSE,
   main_tf |-> <<>>, runs |-> <<>>, iofault |-> FALSE, out |-> <<>>]
NoFs == [repo |-> <<>>, tar |-> <<>>, tf |-> [main_tf |-> <<>>, tar |-> <<>>]]
NoOrc == [k \in Kinds |-> NotAsked]

ManagerInit ==
  /\ jobs = <<>>
  /\ workq = <<>>
  /\ executing = {}
  /\ handler = 0
  /\ pc = [j \in JobIds |-> "idle"]
  /\ cause = [j \in JobIds |-> ""]
  /\ obs = [id |-> 0, status |-> "none"]
  /\ loc = [j \in JobIds |-> NoLoc]
  /\ fs = [j \in JobIds |-> NoFs]
  /\ orc = [j \in JobIds |-> NoOrc]
  /\ hist = [j \in JobIds |-> <<>>]
  /\ lock = "free"
  /\ listing = <<>>
  /\ resp = [j \in JobIds |-> "none"]

Init == ManagerInit /\ dry = TRUE

Next ==
  \E j \in JobIds :
    \/ CreateJob(j)
    \/ Submit(j)
    \/ WorkerStart(j)
    \/ FnLog(j)
    \/ FnReturn(j)
    \/ FnRaise(j)
    \/ WrapperCompleted(j)
    \/ WrapperFailed(j)
    \/ GetJob(j)

Spec == Init /\ [][Next]_vars

\* One job more than the pool has workers, with the scheduling the thread pool
\* gives: a free worker takes the head of the queue, a called fn returns or
\* raises, and _wrapper runs on.
FairJobs == 1..(MaxWorkers + 1)

FairNext ==
  \E j \in FairJobs :
    \/ CreateJob(j)
    \/ Submit(j)
    \/ WorkerStart(j)
    \/ FnLog(j)
    \/ FnReturn(j)
    \/ FnRaise(j)
    \/ WrapperCompleted(j)
    \/ WrapperFailed(j)
    \/ GetJob(j)

Fairness ==
  \A j \in FairJobs :
    /\ WF_vars(WorkerStart(j))
    /\ WF_vars(FnReturn(j) \/ FnRaise(j))
    /\ WF_vars(WrapperCompleted(j))
    /\ WF_vars(WrapperFailed(j))

FairSpec == Init /\ [][FairNext]_vars /\ Fairness

\* One job, with process_deploy_request as its fn.
PipeJobs == {1}

PipeInit == ManagerInit /\ dry \in BOOLEAN

PipeNext ==
  \E j \in PipeJobs :
    \/ CreateJob(j)
    \/ Submit(j)
    \/ WorkerStart(j)
    \/ Clone(j)
    \/ Gate(j)
    \/ InferPort(j)
    \/ SynthBuildFile(j)
    \/ SynthSetup(j)
    \/ SynthCompose(j)
    \/ Rewrites(j)
    \/ Archive(j)
    \/ SynthInfra(j)
    \/ Persist(j)
    \/ TfInit(j)
    \/ TfPlanOrApply(j)
    \/ WrapperCompleted(j)
    \/ WrapperFailed(j)

PipeSpec == PipeInit /\ [][PipeNext]_vars

\* Two jobs with an arbitrary fn, and list_jobs step by step while it holds the
\* mutex.
LockJobs == {1, 2}

LockNext ==
  \/ \E j \in LockJobs :
       \/ CreateJob(j)
       \/ Submit(j)
       \/ WorkerStart(j)
       \/ FnLog(j)
       \/ FnReturn(j)
       \/ FnRaise(j)
       \/ WrapperCompleted(j)
       \/ WrapperFailed(j)
       \/ GetJob(j)
       \/ ListJobsVisit(j)
  \/ ListJobsEnter
  \/ ListJobsReturn

LockSpec == Init /\ [][LockNext]_vars

\* One job whose clone delivers any generated snapshot, up to infer_app_port.
PortNext ==
  \E j \in PipeJobs :
    \/ CreateJob(j)
    \/ Submit(j)
    \/ WorkerStart(j)
    \/ CloneSnapshot(j)
    \/ Gate(j)
    \/ InferPort(j)
    \/ WrapperFailed(j)

PortSpec == Init /\ [][PortNext]_vars

Range(q) == {q[i] : i \in DOMAIN q}

\* Where the pipeline puts the artifact of a kind in the repository directory.
ArtifactPath(k) ==
  CASE k = "build-file" -> "Dockerfile"
    [] k = "compose-file" -> "docker-compose.yml"
    [] k = "setup-script" -> "setup.sh"

\* The candidate text of an oracle answer, and the kind's acceptance predicate on it.
CandidateOf(k, answer) ==
  IF k \in {"build-file", "infra-file"}
    THEN extract_code_block(answer.text)
    ELSE OrElse(extract_code_block(answer.text), answer.text)

Accepts(j, k, c) ==
  CASE k = "build-file" -> c # <<>> /\ acceptable(c, loc[j].port, loc[j].binds)
    [] k = "compose-file" -> compose_acceptable(c)
    [] k = "setup-script" -> setup_acceptable(c)
    [] k = "infra-file" -> c # <<>> /\ is_llm_tf_acceptable(c)

\* The text written for an accepted candidate c.
WrittenForm(j, k, c) ==
  CASE k = "build-file" -> Strip(c)
    [] k = "compose-file" -> Strip(compose_postprocess(c, loc[j].port))
    [] k = "setup-script" -> Strip(setup_normalize(c))
    [] k = "infra-file" -> normalize_tf(c)

\* The kind's deterministic fallback, as a returned text or a raised error.
FallbackOf(j, k) ==
  CASE k = "build-file" -> dockerfile_fallback(loc[j].port)
    [] k = "compose-file" -> compose_fallback(loc[j].port, loc[j].dockerized, loc[j].binds)
    [] k = "setup-script" -> Returned(setup_fallback)
    [] k = "infra-file" ->
         LET fb == terraform_fallback_main_tf(ShortId(j))
         IN  IF fb.ok THEN Returned(normalize_tf(EnsureDockerStart(fb.text))) ELSE fb

FromAcceptedCandidate(j, k) ==
  IF orc[j][k].ok /\ Accepts(j, k, CandidateOf(k, orc[j][k]))
    THEN {WrittenForm(j, k, CandidateOf(k, orc[j][k]))}
    ELSE {}

FromFallback(j, k) == IF FallbackOf(j, k).ok THEN {FallbackOf(j, k).text} ELSE {}

FromClone(j, k) ==
  IF HasFile(loc[j].cloned, ArtifactPath(k))
    THEN {FileText(loc[j].cloned, ArtifactPath(k))}
    ELSE {}

WithRewrites(S) == S \cup {CutUrls(x) : x \in S}

ToolInvoked(j) == St("terraform init") \in Range(hist[j])

\* ------------------------------------------------------------- claims
\* C1: for every job and artifact kind, the text the pipeline persists is an
\* oracle candidate that passed the kind's acceptance predicate (in its written
\* form) or the kind's fallback; a file of the clone is otherwise left as cloned
\* (up to the localhost rewrite); and the provisioning tool is only started on
\* such a main.tf.
C1_ArtifactOK(j, k) ==
  IF k = "infra-file"
    THEN /\ \A x \in {loc[j].main_tf, fs[j].tf.main_tf} \ {<<>>} :
              x \in FromAcceptedCandidate(j, k) \cup FromFallback(j, k)
         /\ ToolInvoked(j) => fs[j].tf.main_tf # <<>>
    ELSE HasFile(fs[j].repo, ArtifactPath(k)) =>
           FileText(fs[j].repo, ArtifactPath(k)) \in
             WithRewrites(FromAcceptedCandidate(j, k) \cup FromFallback(j, k)
                          \cup FromClone(j, k))

C1_OnlyAcceptedOrFallback == \A j \in JobIds : \A k \in Kinds : C1_ArtifactOK(j, k)

C1_Witness ==
  \E j \in JobIds :
    /\ ToolInvoked(j)
    /\ FromAcceptedCandidate(j, "build-file") # {}
    /\ FileText(fs[j].repo, "Dockerfile") \in FromAcceptedCandidate(j, "build-file")
    /\ orc[j]["compose-file"].ok
    /\ FromAcceptedCandidate(j, "compose-file") = {}
    /\ FileText(fs[j].repo, "docker-compose.yml") \in FromFallback(j, "compose-file")
    /\ fs[j].tf.main_tf \in FromAcceptedCandidate(j, "infra-file")

\* C4: a job whose cloned repository is_http_service rejects ends failed, and in
\* that run nothing is written to the repository directory, no archive and no
\* main.tf exist, the oracle is not asked and the provisioning tool is not run.
GateDenied(j) == loc[j].cloned # <<>> /\ ~is_http_service(loc[j].cloned)

C4_DeniedWritesNothing ==
  \A j \in JobIds :
    GateDenied(j) =>
      /\ fs[j].repo = loc[j].cloned
      /\ fs[j].tar = <<>>
      /\ fs[j].tf = NoFs.tf
      /\ loc[j].main_tf = <<>>
      /\ \A k \in Kinds : orc[j][k] = NotAsked
      /\ Range(hist[j]) \subseteq {St("clone"), St("gate")}
      /\ Range(loc[j].runs) = {<<"git clone", 0>>}
      /\ pc[j] # "ret"
      /\ jobs[j].status # completed
      /\ pc[j] = "done" => jobs[j].status = failed

C4_Witness ==
  \E j \in JobIds :
    GateDenied(j) /\ pc[j] = "done" /\ jobs[j].status = failed
      /\ St("gate") \in Range(hist[j])

\* C5: for every artifact kind, when the oracle failed, the synthesis of the kind
\* leaves the kind's fallback text, and that text passes the kind's acceptance
\* predicate (the claim as stated; two of the fallbacks cannot be rendered).
OracleFailed(j, k) == <<"oracle", k>> \in Range(hist[j]) /\ ~orc[j][k].ok

SynthesizedText(j, k) ==
  IF k = "infra-file" THEN loc[j].main_tf
  ELSE IF HasFile(fs[j].repo, ArtifactPath(k))
    THEN FileText(fs[j].repo, ArtifactPath(k))
  ELSE <<>>

C5_FallbackSatisfiesPolicy ==
  \A j \in JobIds : \A k \in Kinds :
    (OracleFailed(j, k) /\ <<"synth", k>> \in Range(hist[j])) =>
      /\ FallbackOf(j, k).ok
      /\ SynthesizedText(j, k) \in WithRewrites({FallbackOf(j, k).text})
      /\ Accepts(j, k, SynthesizedText(j, k))

\* C6: with the oracle failing on every request, a clone that succeeds, the gate
\* passing, no file-system fault and every command exiting zero, a job that has
\* ended is completed (the claim as stated).
NoEnvironmentFault(j) ==
  /\ loc[j].cloned # <<>>
  /\ ~loc[j].iofault
  /\ \A r \in Range(loc[j].runs) : r[2] = 0

C6_OracleDownCompletes ==
  \A j \in JobIds :
    ( /\ pc[j] = "done"
      /\ NoEnvironmentFault(j)
      /\ is_http_service(loc[j].cloned)
      /\ \A k \in Kinds : ~orc[j][k].ok ) => jobs[j].status = completed

\* C7: is_llm_tf_acceptable rejects a candidate with aws_key_pair, without egress
\* or without tls_private_key, and when the oracle answered with such a
\* candidate the provisioning tool is started on the fallback main.tf (the claim
\* as stated; the fallback cannot be rendered).
Disallowed(c) ==
  \/ In("aws_key_pair", LowerText(c))
  \/ ~In("egress", LowerText(c))
  \/ ~In("tls_private_key", LowerText(c))

C7_RejectedInfraReplaced ==
  \A j \in JobIds :
    LET c == CandidateOf("infra-file", orc[j]["infra-file"])
    IN  (orc[j]["infra-file"].ok /\ Disallowed(c)) =>
          /\ ~is_llm_tf_acceptable(c)
          /\ (pc[j] = "done" /\ NoEnvironmentFault(j)) =>
               /\ ToolInvoked(j)
               /\ fs[j].tf.main_tf \in FromFallback(j, "infra-file")

\* C8: a job is completed only if its clone exited zero, the gate accepted the
\* repository, a main.tf was persisted, and terraform init and the plan or
\* apply step exited zero.
C8_CompletedOnlyIfAllStages ==
  \A j \in DOMAIN jobs :
    jobs[j].status = completed =>
      /\ <<"git clone", 0>> \in Range(loc[j].runs)
      /\ loc[j].cloned # <<>>
      /\ is_http_service(loc[j].cloned)
      /\ fs[j].tf.main_tf # <<>>
      /\ fs[j].tf.tar # <<>>
      /\ <<"terraform init", 0>> \in Range(loc[j].runs)
      /\ \/ <<"terraform plan", 0>> \in Range(loc[j].runs)
         \/ <<"terraform apply", 0>> \in Range(loc[j].runs)
      /\ \A r \in Range(loc[j].runs) : r[2] = 0

C8_Witness ==
  \E j \in DOMAIN jobs :
    jobs[j].status = completed /\ <<"terraform apply", 0>> \in Range(loc[j].runs)

\* C9: a failed job has the raised cause in its error field (the claim as
\* stated; _wrapper never assigns the field).
C9_FailedHasError ==
  \A j \in DOMAIN jobs : jobs[j].status = failed => jobs[j].error # "None"

\* C10: within a job no stage and no external call is executed twice; once a
\* stage has raised nothing more of the pipeline runs and the working directory
\* stays as it is; and a job whose pipeline raised ends failed.
NoRepeat(q) == \A a, b \in DOMAIN q : q[a] = q[b] => a = b

Stopped(j) == pc[j] \in {"exc", "done"} /\ cause[j] # ""

C10_NoRetryNoLaterStage ==
  /\ [](\A j \in JobIds :
          /\ NoRepeat(hist[j])
          /\ Len(loc[j].runs) <= 3
          /\ (pc[j] = "done" /\ cause[j] # "") => jobs[j].status = failed)
  /\ [][\A j \in JobIds :
          Stopped(j) => /\ hist'[j] = hist[j]
                        /\ fs'[j] = fs[j]
                        /\ orc'[j] = orc[j]
                        /\ loc'[j] = loc[j]
                        /\ pc'[j] \in {"exc", "done"}]_vars

C10_Witness ==
  \E j \in JobIds :
    /\ pc[j] = "done"
    /\ jobs[j].status = failed
    /\ hist[j][Len(hist[j])] = St("terraform init")
    /\ loc[j].runs[Len(loc[j].runs)] = <<"terraform init", 1>>

\* C2: for every job id the status values form a subsequence of queued, running,
\* (completed | failed): a job enters the registry queued, a terminal status is
\* only entered from running, and a terminal status never changes.
StatusSteps ==
  {<<queued, queued>>, <<queued, running>>, <<running, running>>,
   <<running, completed>>, <<running, failed>>,
   <<completed, completed>>, <<failed, failed>>}

StatusStepOK(j) ==
  /\ (j \notin DOMAIN jobs /\ j \in DOMAIN jobs') => jobs'[j].status = queued
  /\ j \in DOMAIN jobs =>
       /\ j \in DOMAIN jobs'
       /\ <<jobs[j].status, jobs'[j].status>> \in StatusSteps

C2_StatusSequence == [][\A j \in JobIds : StatusStepOK(j)]_vars

C2_Witness ==
  /\ \E j \in DOMAIN jobs : jobs[j].status = completed
  /\ \E j \in DOMAIN jobs : jobs[j].status = failed
  /\ obs.status \in {completed, failed}

\* C3: at most MaxWorkers jobs have status running (the claim as stated; the code
\* marks a job running when it is submitted, not when a worker takes it).
RunningJobs == {j \in DOMAIN jobs : jobs[j].status = running}

C3_AtMostNRunning == Cardinality(RunningJobs) <= MaxWorkers

\* C11: every read and write of a job's fields happens under the JobManager
\* mutex: while list_jobs holds the mutex, what it has read of a job (status,
\* number of log lines) is what the job record holds (the claim as stated; the
\* job logger's handler appends to the logs list without taking the mutex).
C11_NoAccessOutsideLock ==
  lock = "list_jobs" =>
    \A i \in DOMAIN listing :
      /\ listing[i].status = jobs[listing[i].id].status
      /\ listing[i].log_count = Len(jobs[listing[i].id].logs)

\* C12: at most MaxWorkers bodies of fn execute at a time; a job submitted while
\* MaxWorkers execute waits in the queue; and the waiting jobs start in the order
\* of their submission: the queue grows at its tail on submit and a job starts
\* only from its head.
Bodies == {j \in JobIds : pc[j] \in {"start", "ret", "exc"}}

StartsFifo(j) ==
  (j \notin executing /\ j \in executing') =>
     /\ workq # <<>>
     /\ j = Head(workq)
     /\ workq' = Tail(workq)
     /\ Cardinality(executing) < MaxWorkers

QueueStep ==
  \/ workq' = workq
  \/ workq # <<>> /\ workq' = Tail(workq)
  \/ \E j \in JobIds : workq' = Append(workq, j) /\ executing' = executing

C12_PoolBoundFifo ==
  /\ [](Cardinality(executing) <= MaxWorkers /\ Bodies \subseteq executing)
  /\ [][QueueStep /\ \A j \in JobIds : StartsFifo(j)]_vars

C12_Witness ==
  /\ Cardinality(Bodies) = MaxWorkers
  /\ workq # <<>>
  /\ \A j \in Range(workq) : jobs[j].status = running /\ pc[j] = "idle"

\* C13: for every job id at most one run of fn is ever executed: the id is
\* registered once (its record is never replaced), handed to the executor once,
\* started once, and no two records share a working directory.
Count(q, msg) == Cardinality({i \in DOMAIN q : q[i].msg = msg})

ScheduledOnce(j) ==
  /\ Count(jobs[j].logs, "Job started") <= 1
  /\ Cardinality({i \in DOMAIN workq : workq[i] = j}) <= 1
  /\ j \in Range(workq) => (j \notin executing /\ pc[j] = "idle")
  /\ Count(jobs[j].logs, "Job completed successfully")
       + Count(jobs[j].logs, "Job failed: %s") <= 1

C13_OnePipelinePerJob ==
  /\ [](\A j \in DOMAIN jobs :
          /\ ScheduledOnce(j)
          /\ jobs[j].id = j
          /\ \A k \in DOMAIN jobs : jobs[k].workdir = jobs[j].workdir => k = j)
  /\ [][\A j \in JobIds :
          /\ j \in DOMAIN jobs =>
               /\ j \in DOMAIN jobs'
               /\ Len(jobs'[j].logs) >= Len(jobs[j].logs)
               /\ jobs[j].status # queued => jobs'[j].status # queued
          /\ (j \notin executing /\ j \in executing') => pc[j] = "idle"
          /\ pc[j] # "idle" => pc'[j] # "idle"]_vars

C13_Witness ==
  \E j, k \in DOMAIN jobs :
    /\ j # k
    /\ pc[j] = "done" /\ pc[k] = "done"
    /\ Count(jobs[j].logs, "Job started") = 1
    /\ Count(jobs[k].logs, "Job started") = 1
    /\ jobs[j].workdir # jobs[k].workdir

\* C14: a job that has been scheduled (submit marked it running) eventually is
\* completed or failed, when fn returns or raises and the workers are scheduled
\* fairly; and no job is cancelled: a queued _wrapper leaves the queue only by
\* being started, and a started one ends only through _wrapper.
Terminal(j) == j \in DOMAIN jobs /\ jobs[j].status \in {completed, failed}

C14_ScheduledTerminates ==
  /\ \A j \in JobIds :
       (j \in DOMAIN jobs /\ jobs[j].status = running) ~> Terminal(j)
  /\ [][\A j \in JobIds :
          /\ j \in Range(workq) => (j \in Range(workq') \/ j \in executing')
          /\ (j \in executing /\ j \notin executing') => Terminal(j)']_vars

C14_Witness ==
  /\ DOMAIN jobs = FairJobs
  /\ \A j \in FairJobs : Terminal(j) /\ pc[j] = "done"
  /\ \E j \in FairJobs : jobs[j].status = completed
  /\ \E j \in FairJobs : jobs[j].status = failed

\* C15 as stated: the stages of a run execute in the order clone, gate,
\* infer_port, synthesize(build-file), synthesize(compose-file),
\* synthesize(setup-script), archive, synthesize(infra-file), normalize, persist,
\* provisioning tool; setup-script only for a repository that had
\* containerization.
ClaimedOrder ==
  << St("clone"), St("gate"), St("infer_port"), <<"synth", "build-file">>,
     <<"synth", "compose-file">>, <<"synth", "setup-script">>, St("archive"),
     <<"synth", "infra-file">>, St("normalize"), St("persist"),
     St("terraform init") >>

ClaimedRank(e) ==
  IF e \in Range(ClaimedOrder)
    THEN CHOOSE i \in DOMAIN ClaimedOrder : ClaimedOrder[i] = e
  ELSE IF e \in {St("terraform plan"), St("terraform apply")}
    THEN Len(ClaimedOrder) + 1
  ELSE 0

C15_ClaimedStageOrder ==
  \A j \in JobIds :
    /\ \A a, b \in DOMAIN hist[j] :
         (a < b /\ ClaimedRank(hist[j][a]) > 0 /\ ClaimedRank(hist[j][b]) > 0) =>
            ClaimedRank(hist[j][a]) < ClaimedRank(hist[j][b])
    /\ <<"synth", "setup-script">> \in Range(hist[j]) =>
         has_existing_docker(loc[j].cloned)

\* C15 as amended: the stages of a run are a prefix of clone, gate, infer_port,
\* then synthesize(build-file) for a repository without containerization or
\* synthesize(setup-script) for one with it, then synthesize(compose-file), the
\* Makefile, the localhost rewrites, archive, synthesize(infra-file), normalize,
\* persist, terraform init, terraform plan or apply; each synthesis is preceded
\* by its oracle request.
Synth(k) == << <<"oracle", k>>, <<"synth", k>> >>

ExpectedStages(j) ==
  <<St("clone"), St("gate"), St("infer_port")>>
    \o (IF has_existing_docker(loc[j].cloned)
          THEN Synth("setup-script") ELSE Synth("build-file"))
    \o Synth("compose-file")
    \o <<St("makefile"), St("rewrites"), St("archive")>>
    \o Synth("infra-file")
    \o <<St("normalize"), St("persist"), St("terraform init"),
          St(IF dry THEN "terraform plan" ELSE "terraform apply")>>

IsPrefix(a, b) == Len(a) <= Len(b) /\ SubSeq(b, 1, Len(a)) = a

C15_StageOrder == \A j \in JobIds : IsPrefix(hist[j], ExpectedStages(j))

C15_Witness ==
  \E j \in JobIds :
    /\ hist[j] = ExpectedStages(j)
    /\ has_existing_docker(loc[j].cloned)
    /\ jobs[j].status = completed

\* C16: _normalize_tf is idempotent: normalizing the main.tf text the pipeline
\* has normalized gives that text again (the claim as stated; the second
\* substitution also matches a destination that already ends in a slash and
\* adds one more).
C16_NormalizeIdempotent ==
  \A j \in JobIds : normalize_tf(loc[j].main_tf) = loc[j].main_tf

\* C17: in every persisted main.tf the archive is extracted so that its
\* top-level directory "app" is the directory the run command enters, /opt/app:
\* no extraction into /opt/app and no cd into /opt/app/app (the claim as stated;
\* an extraction line the patterns of _normalize_tf do not match is persisted
\* as the oracle wrote it).
C17_ExtractionMatchesRunDir ==
  \A j \in JobIds :
    LET tf == fs[j].tf.main_tf
    IN  \A i \in DOMAIN tf :
          /\ IsTar(tf[i]) => Extracted(tf[i]) = <<"opt", "app">>
          /\ IsCd(tf[i]) => CdDir(tf[i]) = <<"opt", "app">>

\* C18: for every repository snapshot infer_app_port returns a port in
\* 1..65535; a literal outside that range that a tier-1 pattern matches is never
\* the result.
MatchedLiterals(text) ==
  {text[k].n : k \in UNION {PortMatches(text, p) : p \in 1..NumPortPatterns}}

OutOfRangeLiterals(repo) ==
  UNION {MatchedLiterals(repo[i].text) : i \in {x \in DOMAIN repo : PortScanned(repo[x])}}
    \ (1..65535)

C18_PortInRange ==
  \A j \in JobIds :
    /\ fs[j].repo # <<>> =>
         /\ InRange(infer_app_port(fs[j].repo))
         /\ infer_app_port(fs[j].repo) \notin OutOfRangeLiterals(fs[j].repo)
    /\ pc[j] = "assets" =>
         /\ InRange(loc[j].port)
         /\ loc[j].port \notin OutOfRangeLiterals(fs[j].repo)

C18_Witness ==
  \E j \in JobIds :
    /\ pc[j] = "assets"
    /\ 70000 \in OutOfRangeLiterals(fs[j].repo)
    /\ 0 \in OutOfRangeLiterals(fs[j].repo)
    /\ InRange(loc[j].port)

\* C19: if a scanned file holds an in-range match of a port pattern, the result
\* is the match from the first such file, from the first pattern of the list
\* with such a match, whatever tier 2 would say; and with no result from either
\* tier the result is 8080 (the claim as stated; re.search gives only the
\* leftmost match of a pattern, so an out-of-range literal hides an in-range
\* one that follows it).
InRangeMatches(text, p) == {k \in PortMatches(text, p) : InRange(text[k].n)}

HasInRangeMatch(f) ==
  PortScanned(f) /\ \E p \in 1..NumPortPatterns : InRangeMatches(f.text, p) # {}

FirstInRangeMatch(text) ==
  LET p == MinOf({q \in 1..NumPortPatterns : InRangeMatches(text, q) # {}})
  IN  text[MinOf(InRangeMatches(text, p))].n

C19_Tier1ShortCircuits ==
  \A j \in JobIds :
    LET repo == fs[j].repo
        tier1 == {i \in DOMAIN repo : HasInRangeMatch(repo[i])}
        tier2 == {h \in DOMAIN FrameworkHints : FrameworkFound(repo, h)}
    IN  pc[j] = "assets" =>
          /\ tier1 # {} => loc[j].port = FirstInRangeMatch(repo[MinOf(tier1)].text)
          /\ (tier1 = {} /\ tier2 = {}) => loc[j].port = 8080

\* C20: when no tier-1 pattern matches, the result is the port of the first entry
\* of the framework table whose name occurs, case-insensitively, in a scanned
\* source file, whatever the order of the files; a snapshot that is one main.py
\* importing fastapi, without port literal, gives 8000.
NoTier1Match(repo) ==
  \A i \in DOMAIN repo : \A p \in 1..NumPortPatterns :
    PortScanned(repo[i]) => PortMatches(repo[i].text, p) = {}

FrameworkNames(repo) ==
  UNION {{h \in DOMAIN FrameworkHints :
            \E k \in DOMAIN repo[i].text :
              FrameworkHints[h][1] \in Parts(LowerStr(repo[i].text[k].s))} :
         i \in {x \in DOMAIN repo : FrameworkScanned(repo[x])}}

Reverse(q) == [i \in DOMAIN q |-> q[Len(q) + 1 - i]]

C20_FrameworkTableOrder ==
  \A j \in JobIds :
    LET repo == fs[j].repo
    IN  (pc[j] = "assets" /\ NoTier1Match(repo)) =>
          /\ FrameworkNames(repo) # {} =>
               loc[j].port = FrameworkHints[MinOf(FrameworkNames(repo))][2]
          /\ infer_app_port(Reverse(repo)) = loc[j].port
          /\ repo = <<File("main.py", <<Tok("from fastapi import ")>>)>> =>
               loc[j].port = 8000

C20_Witness ==
  \E j \in JobIds :
    /\ pc[j] = "assets"
    /\ fs[j].repo = << File("main.py", <<Tok("django.core")>>),
                        File("server.js", <<Tok("from Flask import ")>>) >>
    /\ loc[j].port = 5000

\* C21: a build-file candidate is written only if it holds a base image, a start
\* command, no fence marker, 0.0.0.0 when the repository binds to loopback, and
\* an expose directive for exactly the target port or in the environment-variable
\* form; a candidate whose expose directives all name another port is rejected
\* (the claim as stated; the code tests for the substring "expose <port>", which
\* a longer port number that starts with the target's digits also holds).
ExposesExactly(s, port) ==
  \E i \in DOMAIN s : s[i].s = "expose " /\ s[i].n = port

C21_BuildFileAcceptance ==
  \A j \in JobIds :
    LET c == CandidateOf("build-file", orc[j]["build-file"])
        s == LowerText(c)
    IN  FromAcceptedCandidate(j, "build-file") # {} =>
          /\ In("from ", s)
          /\ In("cmd", s) \/ In("entrypoint", s)
          /\ ~In("[fence]", c)
          /\ loc[j].binds => In("0.0.0.0", s)
          /\ \/ ExposesExactly(s, loc[j].port)
             \/ In("expose ${port}", s)
             \/ In("expose ${env:port}", s)

\* C22: an infra-file candidate without first-boot provisioning instructions
\* (a user_data block) is rejected, also when it meets every other requirement
\* (the claim as stated; is_llm_tf_acceptable holds no test for user_data).
InfraAnswered(j) ==
  /\ <<"synth", "infra-file">> \in Range(hist[j])
  /\ orc[j]["infra-file"].ok

InfraCandidate(j) == CandidateOf("infra-file", orc[j]["infra-file"])

C22_UserDataRequired ==
  \A j \in JobIds :
    (InfraAnswered(j) /\ ~In("user_data", LowerText(InfraCandidate(j)))) =>
      /\ ~Accepts(j, "infra-file", InfraCandidate(j))
      /\ loc[j].main_tf \notin FromAcceptedCandidate(j, "infra-file")

\* C23: an infra-file candidate that omits the instance type DEFAULT_AWS_INSTANCE,
\* the upload path /home/ubuntu/app.tar.gz or the invocation "make up" is
\* rejected: it never becomes the job's main.tf.
OmitsMandated(c) ==
  \/ ~In(DEFAULT_AWS_INSTANCE, LowerText(c))
  \/ ~In("/home/ubuntu/app.tar.gz", LowerText(c))
  \/ ~In("make up", LowerText(c))

C23_MandatedLiteralsRequired ==
  \A j \in JobIds :
    (InfraAnswered(j) /\ OmitsMandated(InfraCandidate(j))) =>
      /\ ~Accepts(j, "infra-file", InfraCandidate(j))
      /\ \A x \in {loc[j].main_tf, fs[j].tf.main_tf} :
           x \notin {InfraCandidate(j), normalize_tf(InfraCandidate(j))}

C23_Witness ==
  \E j \in JobIds :
    /\ InfraAnswered(j)
    /\ ~In("make up", LowerText(InfraCandidate(j)))
    /\ In(DEFAULT_AWS_INSTANCE, LowerText(InfraCandidate(j)))
    /\ ~Disallowed(InfraCandidate(j))
    /\ jobs[j].status = failed

\* C24: every check of is_llm_tf_acceptable is case-insensitive: a candidate the
\* oracle answered with gets the verdict of every candidate that differs from it
\* only in letter case (the claim as stated; the upload path is tested on the
\* text as written).
SameModuloCase(a, b) == LowerText(a) = LowerText(b)

C24_CaseInsensitiveVerdict ==
  \A j \in JobIds :
    InfraAnswered(j) =>
      \A d \in Candidates("infra-file") :
        LET e == extract_code_block(d)
        IN  SameModuloCase(e, InfraCandidate(j)) =>
              (Accepts(j, "infra-file", e) <=>
                 loc[j].main_tf = normalize_tf(InfraCandidate(j)))

\* C25: every setup script the pipeline writes, generated or fallback, is
\* non-empty, has a shebang as its first line and holds the fail-fast directive
\* set -euo pipefail; an empty generated script is replaced by the fallback
\* (the claim as stated; a generated script that has a shebang is written as it
\* is, with or without the directive).
SetupWritten(j) == <<"synth", "setup-script">> \in Range(hist[j])

C25_SetupScriptNormalized ==
  \A j \in JobIds :
    SetupWritten(j) =>
      LET script == FileText(fs[j].repo, "setup.sh")
          c == CandidateOf("setup-script", orc[j]["setup-script"])
      IN  /\ HasFile(fs[j].repo, "setup.sh")
          /\ script # <<>>
          /\ In("#!/", <<Head(script)>>)
          /\ In("set -euo pipefail", script)
          /\ (orc[j]["setup-script"].ok /\ Strip(c) = <<>>) => script = setup_fallback

\* C26: a job that reaches provisioning runs terraform init first and then
\* exactly one of plan and apply, plan when DRY_TERRAFORM_DEPLOYS is set and apply
\* otherwise; after an init that exits non-zero neither runs; and when a
\* provisioning command exits non-zero the job ends failed, with every line the
\* commands emitted in the job's log, once each and in emission order.
TfCommands == {"terraform init", "terraform plan", "terraform apply"}

TfRuns(j) == SelectSeq(loc[j].runs, LAMBDA r : r[1] \in TfCommands)

ChosenStep == IF dry THEN "terraform plan" ELSE "terraform apply"

ToolLinesLogged(j) ==
  /\ j \in DOMAIN jobs
  /\ SelectSeq(jobs[j].logs, LAMBDA l : l \in Range(loc[j].out)) = loc[j].out

C26_InitThenPlanOrApply ==
  \A j \in JobIds :
    LET t == TfRuns(j)
    IN  /\ Len(t) <= 2
        /\ Len(t) >= 1 =>
             /\ t[1][1] = "terraform init"
             /\ ToolLinesLogged(j)
             /\ (t[1][2] = 0 /\ pc[j] # "plan") => Len(t) = 2
        /\ Len(t) = 2 => t[1][2] = 0 /\ t[2][1] = ChosenStep
        /\ (pc[j] = "done" /\ \E i \in DOMAIN t : t[i][2] # 0) =>
             jobs[j].status = failed

C26_Witness ==
  \E j \in JobIds :
    /\ pc[j] = "done"
    /\ jobs[j].status = failed
    /\ Len(TfRuns(j)) = 2
    /\ TfRuns(j)[2][2] # 0
    /\ Len(loc[j].out) = 2 * MaxToolLines

\* C27: per job the oracle is asked at most once per artifact kind, and a
\* transport failure, a missing credential and an empty response all end as a
\* policy rejection does: the kind's fallback is what the synthesis leaves, and
\* the job does not fail at that synthesis (the claim as stated; the fallbacks of
\* the build file and of main.tf cannot be rendered, see C5).
OracleRequests(j, k) ==
  Cardinality({i \in DOMAIN hist[j] : hist[j][i] = <<"oracle", k>>})

JustSynthesized(j, k) ==
  /\ hist[j] # <<>>
  /\ \/ hist[j][Len(hist[j])] = <<"synth", k>>
     \/ /\ k = "infra-file"
        /\ Len(hist[j]) >= 2
        /\ hist[j][Len(hist[j])] = St("normalize")
        /\ hist[j][Len(hist[j]) - 1] = <<"synth", k>>

C27_OracleFailureFallsBack ==
  \A j \in JobIds : \A k \in Kinds :
    /\ OracleRequests(j, k) <= 1
    /\ (JustSynthesized(j, k) /\ orc[j][k].err \in OracleErrors) =>
         /\ pc[j] # "exc"
         /\ jobs[j].status # failed
         /\ FallbackOf(j, k).ok
         /\ SynthesizedText(j, k) = FallbackOf(j, k).text

\* C28: a job's log is append-only and ordered under every interleaving of the
\* submitting thread, the workers and observers: a step leaves each log as it is
\* or puts one entry at its end, an emitted message goes to one job's log only,
\* "Job started" is the first entry and occurs once, and the terminal message
\* ("Job completed successfully" or "Job failed") occurs once, as the last entry,
\* after which the log no longer changes.
TerminalMessages == {"Job completed successfully", "Job failed: %s"}

LogClosed(q) == q # <<>> /\ q[Len(q)].msg \in TerminalMessages

LogShape(q) ==
  q # <<>> =>
    /\ q[1].msg = "Job started"
    /\ Count(q, "Job started") = 1
    /\ \A i \in DOMAIN q : q[i].msg \in TerminalMessages => i = Len(q)

C28_LogAppendOnlyOrdered ==
  /\ [](\A j \in DOMAIN jobs : LogShape(jobs[j].logs))
  /\ [][\A j \in DOMAIN jobs :
          /\ IsPrefix(jobs[j].logs, jobs'[j].logs)
          /\ Len(jobs'[j].logs) <= Len(jobs[j].logs) + 1
          /\ LogClosed(jobs[j].logs) => jobs'[j].logs = jobs[j].logs]_vars
  /\ [][Cardinality({j \in DOMAIN jobs : jobs'[j].logs # jobs[j].logs}) <= 1]_vars

C28_Witness ==
  \E i, j \in DOMAIN jobs :
    /\ i # j
    /\ Len(jobs[i].logs) = 2 + MaxFnLogs
    /\ jobs[i].logs[Len(jobs[i].logs)].msg = "Job completed successfully"
    /\ LogClosed(jobs[j].logs)
    /\ jobs[j].status = failed
    /\ \E k \in DOMAIN jobs : pc[k] = "start"

\* C29: a generated compose file that is written holds no ${PORT} and no ${port},
\* and a port mapping the oracle wrote as 8080:${PORT} stands in the written file
\* as 8080:<internal_port> (the claim as stated; the variable is replaced first,
\* so the replacement of the mapping finds nothing to replace).
ComposeGenerated(j) ==
  /\ <<"synth", "compose-file">> \in Range(hist[j])
  /\ FromAcceptedCandidate(j, "compose-file") # {}

HasPortMapping(c) ==
  \E i \in DOMAIN c : c[i].s \in {"8080:${PORT}", "8080:${port}"}

C29_ComposePortRewritten ==
  \A j \in JobIds :
    ComposeGenerated(j) =>
      LET c == CandidateOf("compose-file", orc[j]["compose-file"])
          written == FileText(fs[j].repo, "docker-compose.yml")
      IN  /\ ~In("${PORT}", written)
          /\ ~In("${port}", written)
          /\ HasPortMapping(c) => Num("8080:", loc[j].port) \in Range(written)

\* C30: when the clone already holds containerization files, ensure_docker_assets
\* leaves the repository's own Dockerfile, docker-compose.yml, compose.yaml and
\* compose.yml as they were cloned (the claim as stated; the generated compose
\* file is written to docker-compose.yml).
OwnContainerFiles == {"Dockerfile", "docker-compose.yml", "compose.yaml", "compose.yml"}

AssetsEnsured(j) ==
  /\ St("makefile") \in Range(hist[j])
  /\ St("rewrites") \notin Range(hist[j])

C30_OwnContainerFilesKept ==
  \A j \in JobIds :
    (AssetsEnsured(j) /\ has_existing_docker(loc[j].cloned)) =>
      \A name \in OwnContainerFiles :
        HasFile(loc[j].cloned, name) =>
          /\ HasFile(fs[j].repo, name)
          /\ FileText(fs[j].repo, name) = FileText(loc[j].cloned, name)

\* C31: normalization preserves acceptance: when the oracle's infra candidate
\* passed is_llm_tf_acceptable, the normalized text the pipeline keeps, persists
\* and runs terraform on passes is_llm_tf_acceptable as well.
InfraNormalized(j) ==
  /\ InfraAnswered(j)
  /\ is_llm_tf_acceptable(InfraCandidate(j))
  /\ St("normalize") \in Range(hist[j])

C31_NormalizePreservesAcceptance ==
  \A j \in JobIds :
    InfraNormalized(j) =>
      /\ loc[j].main_tf = normalize_tf(InfraCandidate(j))
      /\ is_llm_tf_acceptable(loc[j].main_tf)
      /\ ToolInvoked(j) =>
           /\ fs[j].tf.main_tf = loc[j].main_tf
           /\ is_llm_tf_acceptable(fs[j].tf.main_tf)

C31_Witness ==
  \E j \in JobIds :
    /\ InfraNormalized(j)
    /\ ToolInvoked(j)
    /\ fs[j].tf.main_tf # InfraCandidate(j)
    /\ jobs[j].status = completed

\* C32: the status request_deploy returns is the status the registry holds for
\* the job when the response is produced: as long as no worker has taken the
\* job's _wrapper, the registry, and a get of the job, report the returned status
\* (the claim as stated; the response says queued after submit has stored
\* running).
Responded(j) == resp[j] # "none" /\ j \in DOMAIN jobs

NoWorkerProgress(j) == j \in Range(workq)

C32_ResponseMatchesRegistry ==
  \A j \in JobIds :
    (Responded(j) /\ NoWorkerProgress(j)) =>
      /\ jobs[j].status = resp[j]
      /\ (obs.id = j /\ obs.status # "404") => obs.status = resp[j]

====
